---- MODULE Spec2Model ----
(***************************************************************************)
(* Model of week-1/main.py: a FastAPI application object `app` with one    *)
(* registered path operation, `home`, bound to GET "/".                    *)
(*                                                                         *)
(* The module body of main.py runs once at import (line 6 builds the       *)
(* application, lines 9-11 register `home`); afterwards the server hands   *)
(* requests to `app`, several of them possibly at once (a plain `def`      *)
(* endpoint runs on a worker thread).  One request goes through four       *)
(* steps: dispatch by the router, the endpoint call, serialization of the  *)
(* returned value, and sending the response.                               *)
(*                                                                         *)
(* What main.py leaves to FastAPI is modelled by what the calls in the file *)
(* make it do: the routes FastAPI(...) installs by default, the router's    *)
(* lookup (full match, method mismatch, slash redirect, not found), the     *)
(* check of the endpoint's declared parameters, and the JSON rendering of   *)
(* the returned mapping.                                                    *)
(*                                                                         *)
(* Strings that the program converts (the JSON body) are sequences of      *)
(* one-character strings, so that serialization and parsing are computed.  *)
(* A path is the sequence of its segments: "/" is <<"">>, "/items/1" is    *)
(* <<"items", "1">>, "/docs/" is <<"docs", "">>.                           *)
(***************************************************************************)
EXTENDS Integers, Sequences, FiniteSets, TLC

VARIABLES
    phase,           \* position of the process: "import", "created", "serving", "exited"
    apps,            \* number of FastAPI instances constructed so far
    routes,          \* app.router.routes, in registration order
    openapi_schema,  \* app.openapi_schema: "None" until the schema is first built
    reqs,            \* the requests accepted so far, in arrival order
    heap,            \* the live payload objects: object id -> mapping
    nextObj          \* allocation counter: the identity of the next new object

vars == <<phase, apps, routes, openapi_schema, reqs, heap, nextObj>>

\* Number of requests the server accepts in one run of the model.
MaxRequests == 2

----------------------------------------------------------------------------
(* Text *)

Message == <<"m", "e", "s", "s", "a", "g", "e">>

HelloWorld == <<"H", "e", "l", "l", "o", " ", "w", "o", "r", "l", "d">>

Detail == <<"d", "e", "t", "a", "i", "l">>

NotFoundText == <<"N", "o", "t", " ", "F", "o", "u", "n", "d">>

MethodNotAllowedText ==
    <<"M", "e", "t", "h", "o", "d", " ", "N", "o", "t", " ",
      "A", "l", "l", "o", "w", "e", "d">>

\* Bodies whose text no operation of main.py produces (the documentation pages
\* and the redirect) are kept as one opaque token.
SchemaDocument == <<"<openapi schema>">>

HtmlDocument == <<"<html page>">>

EmptyBody == <<>>

----------------------------------------------------------------------------
(* The endpoint *)

\* home() answering from a module-level counter: the greeting of the first
\* call differs from the greeting of the later ones.
home_counting == <<<<Message, IF nextObj = 1 THEN HelloWorld ELSE Message>>>>

\* def home(): return {"message": "Hello world"}
\* A mapping is the sequence of its (key, value) pairs in insertion order.
home == <<<<Message, HelloWorld>>>>

----------------------------------------------------------------------------
(* JSON: rendering of a response body and the parser a client applies *)

\* A string literal: json.dumps escapes the quote and the backslash.
RECURSIVE Escape(_)
Escape(s) ==
    IF s = <<>> THEN <<>>
    ELSE (IF Head(s) \in {"\"", "\\"} THEN <<"\\", Head(s)>> ELSE <<Head(s)>>)
         \o Escape(Tail(s))

Quote(s) == <<"\"">> \o Escape(s) \o <<"\"">>

\* One member, "key":"value", with the compact item separator ":".
Member(kv) == Quote(kv[1]) \o <<":">> \o Quote(kv[2])

RECURSIVE Members(_)
Members(d) ==
    IF d = <<>> THEN <<>>
    ELSE IF Len(d) = 1 THEN Member(d[1])
    ELSE Member(d[1]) \o <<",">> \o Members(Tail(d))

\* Rendering that leaves the closing brace out.
JsonDumpsUnclosed(d) == <<"{">> \o Members(d)

\* JSONResponse.render: json.dumps(content, separators=(",", ":")).
JsonDumps(d) == <<"{">> \o Members(d) \o <<"}">>

\* dict assignment: a repeated key keeps its place and takes the new value.
Put(d, k, v) ==
    IF \E j \in 1..Len(d) : d[j][1] = k
    THEN [j \in 1..Len(d) |-> IF d[j][1] = k THEN <<k, v>> ELSE d[j]]
    ELSE Append(d, <<k, v>>)

ParseError == [ok |-> FALSE, value |-> <<>>, next |-> 0]

\* The characters of a string literal from position i (after the opening
\* quote) up to the closing quote.
RECURSIVE ReadString(_, _, _)
ReadString(s, i, acc) ==
    IF i > Len(s) THEN ParseError
    ELSE IF s[i] = "\"" THEN [ok |-> TRUE, value |-> acc, next |-> i + 1]
    ELSE IF s[i] = "\\"
         THEN IF i + 1 <= Len(s) /\ s[i + 1] \in {"\"", "\\"}
              THEN ReadString(s, i + 2, Append(acc, s[i + 1]))
              ELSE ParseError
    ELSE ReadString(s, i + 1, Append(acc, s[i]))

ParseString(s, i) ==
    IF i <= Len(s) /\ s[i] = "\"" THEN ReadString(s, i + 1, <<>>) ELSE ParseError

\* The members of an object from position i to the closing brace, which has
\* to be the last character of the text.
RECURSIVE ParseMembers(_, _, _)
ParseMembers(s, i, acc) ==
    LET k == ParseString(s, i) IN
    IF ~k.ok \/ k.next > Len(s) \/ s[k.next] # ":" THEN ParseError
    ELSE LET v == ParseString(s, k.next + 1) IN
         IF ~v.ok \/ v.next > Len(s) THEN ParseError
         ELSE IF s[v.next] = ","
              THEN ParseMembers(s, v.next + 1, Put(acc, k.value, v.value))
         ELSE IF s[v.next] = "}" /\ v.next = Len(s)
              THEN [ok |-> TRUE, value |-> Put(acc, k.value, v.value), next |-> v.next + 1]
         ELSE ParseError

\* json.loads on an object of string members.
ParseJson(s) ==
    IF Len(s) < 2 \/ s[1] # "{" THEN ParseError
    ELSE IF s[2] = "}"
         THEN (IF Len(s) = 2 THEN [ok |-> TRUE, value |-> <<>>, next |-> 3] ELSE ParseError)
    ELSE ParseMembers(s, 2, <<>>)

----------------------------------------------------------------------------
(* Routing *)

Root == <<"">>

\* Segments of a route path that stand for a path parameter.
Params == {"{item_id}"}

\* The routes FastAPI(...) installs when no documentation URL is turned off:
\* the schema, the two documentation pages and the OAuth2 redirect page.
DocRoutes ==
    << [path |-> <<"openapi.json">>, methods |-> {"GET", "HEAD"}, endpoint |-> "openapi"],
       [path |-> <<"docs">>, methods |-> {"GET", "HEAD"}, endpoint |-> "swagger_ui_html"],
       [path |-> <<"docs", "oauth2-redirect">>, methods |-> {"GET", "HEAD"},
        endpoint |-> "swagger_ui_redirect"],
       [path |-> <<"redoc">>, methods |-> {"GET", "HEAD"}, endpoint |-> "redoc_html"] >>

\* The route table when the decorator registers nothing.
RegisterNothing(rts) == rts

\* The route table with home registered under "/home".
RegisterUnderHome(rts) ==
    Append(rts, [path |-> <<"home">>, methods |-> {"GET"}, endpoint |-> "home"])

\* The route table with home registered for GET and POST.
RegisterGetAndPost(rts) ==
    Append(rts, [path |-> Root, methods |-> {"GET", "POST"}, endpoint |-> "home"])

\* The route table with both path operations of the file registered.
RegisterWithItems(rts) ==
    rts \o << [path |-> Root, methods |-> {"GET"}, endpoint |-> "home"],
              [path |-> <<"items", "{item_id}">>, methods |-> {"GET"},
               endpoint |-> "read_item"] >>

\* @app.get("/") on home; the decorator on read_item is commented out.
RegisterRoutes(rts) ==
    Append(rts, [path |-> Root, methods |-> {"GET"}, endpoint |-> "home"])

\* A route path matches a request path segment by segment; a parameter
\* matches any non-empty segment.
PathMatches(rp, p) ==
    /\ Len(rp) = Len(p)
    /\ \A j \in 1..Len(rp) : IF rp[j] \in Params THEN p[j] # "" ELSE rp[j] = p[j]

Match(route, method, path) ==
    IF ~PathMatches(route.path, path) THEN "NONE"
    ELSE IF method \in route.methods THEN "FULL"
    ELSE "PARTIAL"

EndsWithSlash(path) == path # <<>> /\ path[Len(path)] = ""

\* str.rstrip("/"): every trailing slash goes.
RECURSIVE RStrip(_)
RStrip(path) ==
    IF EndsWithSlash(path) THEN RStrip(SubSeq(path, 1, Len(path) - 1)) ELSE path

RedirectPath(path) == IF EndsWithSlash(path) THEN RStrip(path) ELSE Append(path, "")

Least(S) == CHOOSE x \in S : \A y \in S : x <= y

\* Router dispatch: the first full match is served; failing that the first
\* partial match (path found, method not allowed); failing that a redirect to
\* the path with the trailing slash toggled when some route has that path;
\* failing that the default not-found answer.
Resolve(rts, method, path) ==
    LET full    == {j \in 1..Len(rts) : Match(rts[j], method, path) = "FULL"}
        partial == {j \in 1..Len(rts) : Match(rts[j], method, path) = "PARTIAL"}
        slashed == {j \in 1..Len(rts) : Match(rts[j], method, RedirectPath(path)) # "NONE"}
    IN  IF full # {} THEN [kind |-> "endpoint", endpoint |-> rts[Least(full)].endpoint]
        ELSE IF partial # {} THEN [kind |-> "method_not_allowed", endpoint |-> "none"]
        ELSE IF path # Root /\ slashed # {} THEN [kind |-> "redirect", endpoint |-> "none"]
        ELSE [kind |-> "not_found", endpoint |-> "none"]

----------------------------------------------------------------------------
(* Requests *)

Methods == {"GET", "POST", "HEAD"}

Paths == { Root, <<"items", "1">>, <<"items", "abc">>, <<"openapi.json">>, <<"docs", "">> }

\* What a request carries besides method and path: the names of its query
\* parameters, the names of its extra headers, and its body.
Queries == { {}, {"q"} }

Headers == { {}, {"x-token"} }

Bodies == { EmptyBody, <<"{", "}">> }

\* The requests the model sends: every method on every path with nothing
\* else in the request, and GET "/" with every combination of query
\* parameter, extra header and body.
Requests ==
    [method : Methods, path : Paths, query : {{}}, headers : {{}}, body : {EmptyBody}]
    \cup [method : {"GET"}, path : {Root}, query : Queries, headers : Headers, body : Bodies]

\* home() as if it were declared with a required query parameter q.
home_params_q == {"q"}

\* def home(): the endpoint declares no parameter, so nothing is required of
\* the query, the headers or the body.
home_params == {}

\* The identity of a payload when home returns one module-level mapping.
AllocateShared(n) == 1

\* The identity of the object the dict display in home builds: a new one on
\* every evaluation.
Allocate(n) == n

\* A payload that stays referenced after its response is sent.
Keep(h, o) == h

\* The mapping home returned has no reference left once the response is out.
Without(h, o) == [x \in (DOMAIN h) \ {o} |-> h[x]]

Unanswered == [status |-> 0, content |-> EmptyBody]

ErrorResponse(code, text) == [status |-> code, content |-> JsonDumps(<<<<Detail, text>>>>)]

----------------------------------------------------------------------------
(* The process *)

Init ==
    /\ phase = "import"
    /\ apps = 0
    /\ routes = <<>>
    /\ openapi_schema = "None"
    /\ reqs = <<>>
    /\ heap = <<>>
    /\ nextObj = 1

\* app = FastAPI(title="My FastAPI APP")
CreateApp ==
    /\ phase = "import"
    /\ phase' = "created"
    /\ apps' = apps + 1
    /\ routes' = DocRoutes
    /\ UNCHANGED <<openapi_schema, reqs, heap, nextObj>>

\* @app.get("/") def home(): ...   (the end of the module body: the server
\* starts serving once the import is complete)
RegisterHome ==
    /\ phase = "created"
    /\ phase' = "serving"
    /\ routes' = RegisterRoutes(routes)
    /\ UNCHANGED <<apps, openapi_schema, reqs, heap, nextObj>>

\* A request arrives.
Receive(r) ==
    /\ phase = "serving"
    /\ Len(reqs) < MaxRequests
    /\ reqs' = Append(reqs, [method |-> r.method, path |-> r.path, query |-> r.query,
                             headers |-> r.headers, body |-> r.body,
                             pc |-> "received", endpoint |-> "none",
                             payload |-> 0, response |-> Unanswered])
    /\ UNCHANGED <<phase, apps, routes, openapi_schema, heap, nextObj>>

\* The router looks the request up in the route table.
Dispatch(i) ==
    /\ phase = "serving"
    /\ reqs[i].pc = "received"
    /\ LET r == Resolve(routes, reqs[i].method, reqs[i].path) IN
       reqs' = [reqs EXCEPT ![i] =
           IF r.kind = "endpoint"
           THEN [@ EXCEPT !.pc = "call", !.endpoint = r.endpoint]
           ELSE IF r.kind = "method_not_allowed"
           THEN [@ EXCEPT !.pc = "send", !.response = ErrorResponse(405, MethodNotAllowedText)]
           ELSE IF r.kind = "redirect"
           THEN [@ EXCEPT !.pc = "send", !.response = [status |-> 307, content |-> EmptyBody]]
           ELSE [@ EXCEPT !.pc = "send", !.response = ErrorResponse(404, NotFoundText)]]
    /\ UNCHANGED <<phase, apps, routes, openapi_schema, heap, nextObj>>

\* The endpoint of the matched route runs.  For home the declared parameters
\* are checked against the request first; then home() is evaluated.
Call(i) ==
    /\ phase = "serving"
    /\ reqs[i].pc = "call"
    /\ IF reqs[i].endpoint = "home"
       THEN IF home_params \subseteq reqs[i].query
            THEN LET o == Allocate(nextObj) IN
                 /\ heap' = (o :> home) @@ heap
                 /\ nextObj' = nextObj + 1
                 /\ reqs' = [reqs EXCEPT ![i].pc = "serialize", ![i].payload = o]
                 /\ UNCHANGED openapi_schema
            ELSE /\ reqs' = [reqs EXCEPT ![i].pc = "send",
                                         ![i].response = [status |-> 422, content |-> EmptyBody]]
                 /\ UNCHANGED <<openapi_schema, heap, nextObj>>
       ELSE IF reqs[i].endpoint = "openapi"
       THEN /\ openapi_schema' = "built"
            /\ reqs' = [reqs EXCEPT ![i].pc = "send",
                                    ![i].response = [status |-> 200, content |-> SchemaDocument]]
            /\ UNCHANGED <<heap, nextObj>>
       ELSE /\ reqs' = [reqs EXCEPT ![i].pc = "send",
                                    ![i].response = [status |-> 200, content |-> HtmlDocument]]
            /\ UNCHANGED <<openapi_schema, heap, nextObj>>
    /\ UNCHANGED <<phase, apps, routes>>

\* The value home returned is rendered as the JSON body of a 200 response.
Serialize(i) ==
    /\ phase = "serving"
    /\ reqs[i].pc = "serialize"
    /\ reqs[i].payload \in DOMAIN heap
    /\ reqs' = [reqs EXCEPT ![i].pc = "send",
                            ![i].response = [status |-> 200,
                                             content |-> JsonDumps(heap[reqs[i].payload])]]
    /\ UNCHANGED <<phase, apps, routes, openapi_schema, heap, nextObj>>

\* The response goes out; the request's payload is dropped.
Send(i) ==
    /\ phase = "serving"
    /\ reqs[i].pc = "send"
    /\ reqs' = [reqs EXCEPT ![i].pc = "done"]
    /\ heap' = Without(heap, reqs[i].payload)
    /\ UNCHANGED <<phase, apps, routes, openapi_schema, nextObj>>

\* The process exits: the server stops once no request is in flight.
Exit ==
    /\ phase = "serving"
    /\ \A i \in 1..Len(reqs) : reqs[i].pc = "done"
    /\ phase' = "exited"
    /\ UNCHANGED <<apps, routes, openapi_schema, reqs, heap, nextObj>>

Next ==
    \/ CreateApp
    \/ RegisterHome
    \/ \E r \in Requests : Receive(r)
    \/ \E i \in 1..Len(reqs) : Dispatch(i)
    \/ \E i \in 1..Len(reqs) : Call(i)
    \/ \E i \in 1..Len(reqs) : Serialize(i)
    \/ \E i \in 1..Len(reqs) : Send(i)
    \/ Exit

Spec == Init /\ [][Next]_vars

----------------------------------------------------------------------------
(* Properties *)

\* The mapping and the body the specification names for GET "/".
ExpectedPayload == <<<<Message, HelloWorld>>>>

ExpectedBody ==
    <<"{", "\"", "m", "e", "s", "s", "a", "g", "e", "\"", ":", "\"",
      "H", "e", "l", "l", "o", " ", "w", "o", "r", "l", "d", "\"", "}">>

Ids == 1..Len(reqs)

Answered(i) == reqs[i].pc \in {"send", "done"}

IsGetRoot(i) == reqs[i].method = "GET" /\ reqs[i].path = Root

IsItems(i) == Len(reqs[i].path) = 2 /\ reqs[i].path[1] = "items" /\ reqs[i].path[2] # ""

TypeOK ==
    /\ phase \in {"import", "created", "serving", "exited"}
    /\ apps \in 0..1
    /\ openapi_schema \in {"None", "built"}
    /\ Len(reqs) <= MaxRequests
    /\ nextObj \in 1..(MaxRequests + 1)
    /\ \A i \in Ids : reqs[i].pc \in {"received", "call", "serialize", "send", "done"}

\* C1: whatever requests came before, a GET "/" is dispatched to home and is
\* answered 200 with a body that is exactly {"message": "Hello world"}; every
\* GET "/" gets the answer the first one got.
C1_GetRootAnswer ==
    /\ \A i \in Ids :
          IsGetRoot(i) =>
             /\ reqs[i].pc # "received" => reqs[i].endpoint = "home"
             /\ Answered(i) =>
                   /\ reqs[i].response.status = 200
                   /\ reqs[i].response.content = ExpectedBody
    /\ \A i, j \in Ids :
          IsGetRoot(i) /\ IsGetRoot(j) /\ Answered(i) /\ Answered(j)
             => reqs[i].response = reqs[j].response

\* A GET "/" answered as the second request, after a request of another kind.
C1_Witness ==
    /\ Len(reqs) >= 2
    /\ ~IsGetRoot(1) /\ reqs[1].pc = "done"
    /\ IsGetRoot(2) /\ reqs[2].pc = "done" /\ reqs[2].response.status = 200

\* The route table as (method, path) pairs.
RouteTable ==
    UNION { {<<m, routes[j].path>> : m \in routes[j].methods} : j \in 1..Len(routes) }

DocPaths == { <<"openapi.json">>, <<"docs">>, <<"docs", "oauth2-redirect">>, <<"redoc">> }

\* C2 as stated: the route table holds (GET, "/") and nothing else, and every
\* request whose path is not "/" finds no route and gets the not-found answer.
C2_Original ==
    /\ phase \in {"serving", "exited"} => RouteTable = {<<"GET", Root>>}
    /\ \A i \in Ids :
          reqs[i].path # Root /\ reqs[i].pc # "received" =>
             /\ reqs[i].endpoint = "none"
             /\ reqs[i].response.status = 404

\* C2 (amended): main.py registers (GET, "/") and no other route of its own;
\* with it the table holds the four documentation routes the framework
\* installs, each for GET and HEAD.  A request whose path is not "/" finds no
\* route and gets the not-found answer, unless its path without trailing
\* slashes is one of the four documentation paths.
C2_OnlyRootAndDocs ==
    /\ phase \in {"serving", "exited"} =>
          RouteTable = {<<"GET", Root>>} \cup {<<m, p>> : m \in {"GET", "HEAD"}, p \in DocPaths}
    /\ \A i \in Ids :
          reqs[i].path # Root /\ reqs[i].pc # "received" =>
             IF RStrip(reqs[i].path) \in DocPaths
             THEN reqs[i].response.status # 404
             ELSE /\ reqs[i].endpoint = "none"
                  /\ reqs[i].pc \in {"send", "done"}
                  /\ reqs[i].response = ErrorResponse(404, NotFoundText)

\* Both cases of the amended claim answered: an unknown path (404) and a
\* documentation path (not 404).
C2_Witness ==
    \E i, j \in Ids :
       /\ reqs[i].pc = "done" /\ reqs[i].path = <<"items", "abc">>
       /\ reqs[i].method = "POST" /\ reqs[i].response.status = 404
       /\ reqs[j].pc = "done" /\ reqs[j].path = <<"openapi.json">>
       /\ reqs[j].response.status = 200

\* C3: a GET on /items/<item_id>, for every item_id, is answered 404 whatever
\* requests came before: no route for it is registered.
C3_ItemsNotFound ==
    \A i \in Ids :
       reqs[i].method = "GET" /\ IsItems(i) =>
          /\ reqs[i].endpoint = "none"
          /\ reqs[i].pc # "received" =>
                /\ reqs[i].pc \in {"send", "done"}
                /\ reqs[i].response.status = 404

\* GET /items/1 answered 404 after an earlier request was served.
C3_Witness ==
    /\ Len(reqs) >= 2
    /\ reqs[1].pc = "done"
    /\ reqs[2].method = "GET" /\ reqs[2].path = <<"items", "1">>
    /\ reqs[2].pc = "done" /\ reqs[2].response.status = 404

\* C4: a request to "/" with a method other than GET (POST among them) is
\* answered 405 and home is never called for it.
C4_MethodNotAllowed ==
    \A i \in Ids :
       reqs[i].path = Root /\ reqs[i].method # "GET" =>
          /\ reqs[i].endpoint # "home"
          /\ reqs[i].payload = 0
          /\ reqs[i].pc \notin {"call", "serialize"}
          /\ Answered(i) => reqs[i].response.status = 405

\* POST "/" and HEAD "/" both answered 405.
C4_Witness ==
    \E i, j \in Ids :
       /\ reqs[i].path = Root /\ reqs[i].method = "POST"
       /\ reqs[i].pc = "done" /\ reqs[i].response.status = 405
       /\ reqs[j].path = Root /\ reqs[j].method = "HEAD"
       /\ reqs[j].pc = "done" /\ reqs[j].response.status = 405

HoldsPayload(i) == reqs[i].pc \in {"serialize", "send"} /\ reqs[i].endpoint = "home"

\* What each GET "/" in flight has at its current step.
C5_EachStepRight ==
    \A i \in Ids :
       IsGetRoot(i) =>
          /\ reqs[i].pc = "serialize" =>
                /\ reqs[i].payload \in DOMAIN heap
                /\ heap[reqs[i].payload] = ExpectedPayload
          /\ Answered(i) =>
                /\ reqs[i].response.status = 200
                /\ ParseJson(reqs[i].response.content).value = ExpectedPayload

\* A step of one request leaves every other request, and the payload another
\* request still has to serialize, as they were.
C5_StepIsolated ==
    \A i \in Ids :
       reqs'[i] # reqs[i] =>
          \A j \in Ids \ {i} :
             /\ reqs'[j] = reqs[j]
             /\ reqs[j].pc = "serialize" /\ reqs[j].payload \in DOMAIN heap =>
                   /\ reqs[j].payload \in DOMAIN heap'
                   /\ heap'[reqs[j].payload] = heap[reqs[j].payload]

\* C5: with several GET "/" in flight at once, in every interleaving of their
\* dispatch, call, serialization and send steps each one gets 200 and the
\* body {"message": "Hello world"}, and no step of one request changes
\* another request or the payload it holds.
C5_ConcurrentGetRoot == []C5_EachStepRight /\ [][C5_StepIsolated]_vars

\* Two GET "/" in flight at different steps, the later arrival ahead.
C5_Witness ==
    /\ Len(reqs) >= 2
    /\ IsGetRoot(1) /\ reqs[1].pc = "serialize"
    /\ IsGetRoot(2) /\ reqs[2].pc = "send" /\ reqs[2].response.status = 200

\* C6: the body of the answer to GET "/" is valid JSON and parses to a
\* mapping with the one key "message" and the value "Hello world"; while the
\* returned mapping is still held, the parsed body equals it.
C6_JsonRoundTrip ==
    \A i \in Ids :
       IsGetRoot(i) /\ Answered(i) =>
          LET parsed == ParseJson(reqs[i].response.content) IN
          /\ parsed.ok
          /\ Len(parsed.value) = 1
          /\ parsed.value[1] = <<Message, HelloWorld>>
          /\ reqs[i].payload \in DOMAIN heap => parsed.value = heap[reqs[i].payload]

\* A rendered body whose source mapping is still held.
C6_Witness ==
    \E i \in Ids :
       /\ IsGetRoot(i) /\ reqs[i].pc = "send"
       /\ reqs[i].payload \in DOMAIN heap
       /\ Len(reqs[i].response.content) = 25

CarriedBy(i) == <<reqs[i].query, reqs[i].headers, reqs[i].body>>

\* C7: two GET "/" that differ in query parameters, headers or body get the
\* same status and body, and neither gets an error answer.
C7_InputIndependent ==
    \A i, j \in Ids :
       /\ IsGetRoot(i) /\ IsGetRoot(j) /\ Answered(i) /\ Answered(j)
       /\ CarriedBy(i) # CarriedBy(j)
       => /\ reqs[i].response = reqs[j].response
          /\ reqs[i].response.status < 400

\* Two answered GET "/", one bare, one with a query parameter, a header and
\* a body.
C7_Witness ==
    \E i, j \in Ids :
       /\ IsGetRoot(i) /\ IsGetRoot(j) /\ reqs[i].pc = "done" /\ reqs[j].pc = "done"
       /\ reqs[i].query = {} /\ reqs[i].headers = {} /\ reqs[i].body = EmptyBody
       /\ reqs[j].query = {"q"} /\ reqs[j].headers = {"x-token"} /\ reqs[j].body # EmptyBody

\* The requests the claim is about: GET "/", a request to an unknown path, a
\* request with a method the path does not support.
C8_Covered(i) ==
    \/ IsGetRoot(i)
    \/ Resolve(routes, reqs[i].method, reqs[i].path).kind
          \in {"not_found", "method_not_allowed"}

C8_Frame ==
    \A i \in Ids :
       reqs'[i] # reqs[i] /\ C8_Covered(i) =>
          /\ apps' = apps
          /\ routes' = routes
          /\ openapi_schema' = openapi_schema
          /\ phase' = phase

C8_NothingKept ==
    DOMAIN heap = {reqs[i].payload : i \in {k \in Ids : HoldsPayload(k)}}

\* C8: a step of a GET "/", of a request to an unknown path or of a request
\* with an unsupported method leaves the application instance and its route
\* table unchanged, and the only payloads in memory are those of requests
\* still being answered.
C8_NoSideEffect == [][C8_Frame]_vars /\ []C8_NothingKept

\* All three kinds of request answered and nothing left in memory.
C8_Witness ==
    /\ Len(reqs) >= 2
    /\ \A i \in Ids : reqs[i].pc = "done"
    /\ \E i \in Ids : IsGetRoot(i)
    /\ \E i \in Ids : reqs[i].response.status \in {404, 405}
    /\ heap = <<>>

C9_OnceBeforeServing ==
    /\ apps <= 1
    /\ phase \in {"serving", "exited"} \/ Len(reqs) > 0 =>
          /\ apps = 1
          /\ <<"GET", Root>> \in RouteTable

C9_Stable ==
    phase \in {"serving", "exited"} => /\ apps' = apps
                                        /\ routes' = routes

\* C9: one application instance is created, at import; (GET, "/") is in its
\* route table before a request is served; from then to the exit of the
\* process the instance count and the route table do not change.
C9_Lifecycle == []C9_OnceBeforeServing /\ [][C9_Stable]_vars

\* The process has served requests and exited.
C9_Witness ==
    /\ phase = "exited"
    /\ Len(reqs) >= 2
    /\ \A i \in Ids : reqs[i].pc = "done"

\* C10: every call of home builds a new mapping: no two requests ever hold
\* the same payload object, and every payload held equals
\* {"message": "Hello world"}.
C10_FreshPayload ==
    /\ \A i, j \in Ids :
          i # j /\ reqs[i].payload # 0 /\ reqs[j].payload # 0
             => reqs[i].payload # reqs[j].payload
    /\ \A i \in Ids :
          HoldsPayload(i) =>
             /\ reqs[i].payload \in DOMAIN heap
             /\ heap[reqs[i].payload] = ExpectedPayload

\* Two payloads held at once.
C10_Witness ==
    \E i, j \in Ids :
       /\ i # j /\ HoldsPayload(i) /\ HoldsPayload(j)
       /\ Cardinality(DOMAIN heap) = 2

====
